---- MODULE Spec2Model ----
(***************************************************************************)
(* Dynamic relationship loader of lib/sqlalchemy/orm/dynamic.py: one       *)
(* parent instance, one "dynamic" relationship attribute on it, the        *)
(* CollectionHistory kept in state.committed_state, the AppenderQuery      *)
(* objects handed out by the attribute, and the session the parent may be  *)
(* attached to.                                                            *)
(***************************************************************************)
EXTENDS Naturals, Integers, Sequences, FiniteSets, TLC

\* ------------------------------------------------------------------ bounds
\* number of distinct child objects (identities 1..NumItems)
NumItems == 2
\* longest iterable handed to set()
MaxNew == 2
\* AppenderQuery objects alive at once
MaxQueries == 2
\* threads that append to the attribute of the one instance
NumThreads == 2

Items == 1..NumItems

Threads == 1..NumThreads

VARIABLES
    registered,       \* strategies._register_attribute has run for the class
    has_identity,     \* state.has_identity (state.key is not None)
    attached,         \* object_session(instance) is not None
    sess_autoflush,   \* sess.autoflush
    db,               \* the children that have a row under this parent in the store
    committed_state,  \* state.committed_state: <<>> or <<CollectionHistory>> under self.key
    queries,          \* the AppenderQuery objects created so far
    ret,              \* the last call: its name, arguments, exception, return value
    calls,            \* what the last call invoked, in order: listeners, flush, execute
    threads,          \* each thread's position inside fire_append_event and its locals
    heap              \* the CollectionHistory objects the threads made, and the one
                      \* state.committed_state[self.key] refers to (0: key absent)

vars == <<registered, has_identity, attached, sess_autoflush, db,
          committed_state, queries, ret, calls, threads, heap>>

\* ------------------------------------------------- util.OrderedIdentitySet
\* An ordered identity set is a sequence without repetitions.
Range(s) == {s[i] : i \in DOMAIN s}

OAdd(s, x) == IF x \in Range(s) THEN s ELSE Append(s, x)

ORemove(s, x) == SelectSeq(s, LAMBDA y : y # x)

ODifference(s, t) == SelectSeq(s, LAMBDA y : y \notin Range(t))

OIntersection(s, t) == SelectSeq(s, LAMBDA y : y \in Range(t))

OUnion(s, t) == s \o ODifference(t, s)

RECURSIVE OrderedIdentitySet(_)
OrderedIdentitySet(s) ==
    IF s = <<>> THEN <<>>
    ELSE OAdd(OrderedIdentitySet(SubSeq(s, 1, Len(s) - 1)), s[Len(s)])

\* all sequences without repetition over a set: the orders a set iterates in
Orders(S) ==
    {s \in [1..Cardinality(S) -> S] :
        \A i, j \in DOMAIN s : i # j => s[i] # s[j]}

\* the rows of a set of children in primary-key order
RECURSIVE SortedSeq(_)
SortedSeq(S) ==
    IF S = {} THEN <<>>
    ELSE LET m == CHOOSE x \in S : \A y \in S : x <= y
         IN  <<m>> \o SortedSeq(S \ {m})

\* ------------------------------------------------------ attributes.PASSIVE_*
\* a passive flag, reduced to the two bits dynamic.py tests
PassiveFlags == [sql_ok : BOOLEAN, init_ok : BOOLEAN]

PASSIVE_OFF == [sql_ok |-> TRUE, init_ok |-> TRUE]

PASSIVE_NO_INITIALIZE == [sql_ok |-> TRUE, init_ok |-> FALSE]

\* ---------------------------------------------------------------- the world
\* The mutable objects one call can touch, threaded through the operators.
World ==
    [has_identity |-> has_identity, attached |-> attached,
     sess_autoflush |-> sess_autoflush, db |-> db,
     committed_state |-> committed_state, calls |-> <<>>]

Call(kind, item, initiator) ==
    [call |-> kind, item |-> item, initiator |-> initiator]

\* the outcome of an operator: the world after it, the exception, the value
Out(w, err, val) == [w |-> w, err |-> err, val |-> val]

\* state.detached: has a key and is in no session
detached(w) == w.has_identity /\ ~w.attached

\* ------------------------------------------------------------ the session
\* Session.flush(): a pending parent is inserted and gets its identity, the
\* pending additions become rows, the pending removals of rows are deleted,
\* and the pending-change map of the instance is cleared.
flush(w) ==
    LET c == IF w.committed_state = <<>>
             THEN [added_items |-> <<>>, deleted_items |-> <<>>]
             ELSE w.committed_state[1]
        gone == Range(c.deleted_items) \cap w.db
        kept == w.db \ gone
    IN  [w EXCEPT !.has_identity = TRUE,
                  !.db = kept \cup (Range(c.added_items) \ w.db),
                  !.committed_state = <<>>,
                  !.calls = Append(@, Call("flush", 0, "session"))]

\* ------------------------------------------------------------ AppenderQuery
\* Query([attr.target_mapper]).where(prop._with_parent(instance)): the
\* statement as its clause slots; criterion 0 is the parent criterion, limit
\* and offset are -1 when not set
BaseStatement ==
    [criteria |-> <<0>>, order_by |-> <<>>, joins |-> <<>>,
     limit |-> -1, offset |-> -1]

\* AppenderQuery.__init__
AppenderQuery == [statement |-> BaseStatement, autoflush |-> TRUE]

\* the rows a statement selects from the parent's child rows: the criteria
\* filter (criterion c keeps the children other than c), OFFSET then LIMIT
\* cut; ORDER BY and JOIN keep the rows
Rows(stmt, rows) ==
    LET f == SelectSeq(SortedSeq(rows), LAMBDA y : y \notin Range(stmt.criteria))
        o == IF stmt.offset < 0 THEN f ELSE SubSeq(f, stmt.offset + 1, Len(f))
    IN  IF stmt.limit < 0 \/ stmt.limit >= Len(o) THEN o
        ELSE SubSeq(o, 1, stmt.limit)

\* "instance in sess": the session object_session returns holds the instance
in_session(w) == w.attached

\* the session property flushing whatever the query's autoflush toggle says
session_eager(q, w) ==
    LET w1 == IF w.attached /\ w.sess_autoflush /\ in_session(w)
              THEN flush(w) ELSE w
    IN  IF ~w1.has_identity THEN Out(w1, "none", FALSE)
        ELSE Out(w1, "none", w1.attached)

\* AppenderQuery.session (property): flushes, then answers whether there is
\* a session to query; val is "sess is not None"
session(q, w) ==
    LET w1 == IF w.attached /\ q.autoflush /\ w.sess_autoflush /\ in_session(w)
              THEN flush(w) ELSE w
    IN  IF ~w1.has_identity THEN Out(w1, "none", FALSE)
        ELSE Out(w1, "none", w1.attached)

\* AppenderQuery._execute, called with a session
_execute(q, w) ==
    Out([w EXCEPT !.calls = Append(@, Call("execute", 0, "session"))],
        "none", Rows(q.statement, w.db))

\* ------------------------------------------------------- CollectionHistory
EmptyHistory ==
    [added_items |-> <<>>, deleted_items |-> <<>>, unchanged_items |-> <<>>,
     reconcile_collection |-> FALSE]

\* DynamicAttributeImpl._get_collection_history, first half: the stored
\* CollectionHistory, or a fresh empty one that is not stored
stored_history(w) ==
    IF w.committed_state # <<>> THEN w.committed_state[1] ELSE EmptyHistory

\* _iter without the check of state.detached
_iter_serving(q, w) ==
    LET s == session(q, w)
    IN  IF ~s.val THEN Out(s.w, "none", stored_history(s.w).added_items)
        ELSE _execute(q, s.w)

\* AppenderQuery._iter
_iter(q, w) ==
    LET s == session(q, w)
    IN  IF ~s.val
        THEN IF detached(s.w)
             THEN Out(s.w, "DetachedInstanceError", <<>>)
             ELSE Out(s.w, "none", stored_history(s.w).added_items)
        ELSE _execute(q, s.w)

\* CollectionHistory.__init__ loading unchanged_items through a query
\* that keeps its autoflush
CollectionHistory_autoflushing(w, apply_to) ==
    IF apply_to = <<>>
    THEN Out(w, "none", EmptyHistory)
    ELSE LET it == _iter(AppenderQuery, w)
         IN  IF it.err # "none" THEN Out(it.w, it.err, EmptyHistory)
             ELSE Out(it.w, "none",
                      [added_items |-> apply_to[1].added_items,
                       deleted_items |-> apply_to[1].deleted_items,
                       unchanged_items |-> OrderedIdentitySet(it.val),
                       reconcile_collection |-> TRUE])

\* CollectionHistory.__init__
CollectionHistory(w, apply_to) ==
    IF apply_to = <<>>
    THEN Out(w, "none", EmptyHistory)
    ELSE LET coll == [AppenderQuery EXCEPT !.autoflush = FALSE]
             it == _iter(coll, w)
         IN  IF it.err # "none" THEN Out(it.w, it.err, EmptyHistory)
             ELSE Out(it.w, "none",
                      [added_items |-> apply_to[1].added_items,
                       deleted_items |-> apply_to[1].deleted_items,
                       unchanged_items |-> OrderedIdentitySet(it.val),
                       reconcile_collection |-> TRUE])

\* CollectionHistory.added_plus_unchanged
added_plus_unchanged(c) == OUnion(c.added_items, c.unchanged_items)

\* all_items as the three lists one after the other
all_items_concat(c) ==
    c.added_items \o c.unchanged_items \o c.deleted_items

\* CollectionHistory.all_items
all_items(c) ==
    OUnion(OUnion(c.added_items, c.unchanged_items), c.deleted_items)

\* as_history without the reconciliation against unchanged_items
as_history_raw(c) ==
    [added |-> c.added_items, unchanged |-> c.unchanged_items,
     deleted |-> c.deleted_items]

\* CollectionHistory.as_history
as_history(c) ==
    IF c.reconcile_collection
    THEN LET deleted == OIntersection(c.deleted_items, c.unchanged_items)
         IN  [added |-> ODifference(c.added_items, c.unchanged_items),
              unchanged |-> ODifference(c.unchanged_items, deleted),
              deleted |-> deleted]
    ELSE [added |-> c.added_items, unchanged |-> c.unchanged_items,
          deleted |-> c.deleted_items]

\* add_added that also takes the item out of deleted_items
add_added_cancelling(c, value) ==
    [c EXCEPT !.added_items = OAdd(@, value),
              !.deleted_items = ORemove(@, value)]

\* CollectionHistory.add_added
add_added(c, value) == [c EXCEPT !.added_items = OAdd(@, value)]

\* add_removed that records a removal also for a pending addition
add_removed_mark(c, value) ==
    [c EXCEPT !.added_items = ORemove(@, value),
              !.deleted_items = OAdd(@, value)]

\* CollectionHistory.add_removed
add_removed(c, value) ==
    IF value \in Range(c.added_items)
    THEN [c EXCEPT !.added_items = ORemove(@, value)]
    ELSE [c EXCEPT !.deleted_items = OAdd(@, value)]

\* ---------------------------------------------------- DynamicAttributeImpl
\* _get_collection_history that stores the CollectionHistory it creates
\* for an absent key
_get_collection_history_storing(w, passive) ==
    LET c == stored_history(w)
        w1 == [w EXCEPT !.committed_state = <<c>>]
    IN  IF w.has_identity /\ passive.init_ok
        THEN CollectionHistory(w1, <<c>>)
        ELSE Out(w1, "none", c)

\* DynamicAttributeImpl._get_collection_history
_get_collection_history(w, passive) ==
    LET c == stored_history(w)
    IN  IF w.has_identity /\ passive.init_ok
        THEN CollectionHistory(w, <<c>>)
        ELSE Out(w, "none", c)

\* DynamicAttributeImpl._modified_event: the stored CollectionHistory,
\* created first when the key is absent
_modified_event(w) ==
    IF w.committed_state = <<>>
    THEN [w EXCEPT !.committed_state = <<EmptyHistory>>]
    ELSE w

\* AttributeImpl.trackparent: the relationship tracks the parent of its
\* children (the one-to-many configuration)
trackparent == TRUE

\* one call of a registered listener (fn in self.dispatch.append / .remove);
\* saw is the pending-change map of the instance the listener finds
Listener(kind, item, initiator, w) ==
    [call |-> kind, item |-> item, initiator |-> initiator,
     saw |-> w.committed_state]

\* self.sethasparent(instance_state(value), state, flag)
sethasparent(w, value, flag) ==
    [w EXCEPT !.calls = Append(@, Call("sethasparent", value, flag))]

\* fire_append_event that calls the listeners before it records the item
fire_append_event_late(w, value, initiator, given) ==
    LET w1 == IF given THEN w ELSE _modified_event(w)
        token == IF initiator = "None" THEN "append_token" ELSE initiator
        w2 == [w1 EXCEPT !.calls = Append(@, Listener("append", value, token, w1))]
        w3 == [w2 EXCEPT !.committed_state =
                             <<add_added(w2.committed_state[1], value)>>]
    IN  IF trackparent THEN sethasparent(w3, value, "True") ELSE w3

\* DynamicAttributeImpl.fire_append_event; given: the caller passed the
\* stored CollectionHistory as collection_history
fire_append_event(w, value, initiator, given) ==
    LET w1 == IF given THEN w ELSE _modified_event(w)
        token == IF initiator = "None" THEN "append_token" ELSE initiator
        w2 == [w1 EXCEPT !.committed_state =
                             <<add_added(w1.committed_state[1], value)>>]
        w3 == [w2 EXCEPT !.calls = Append(@, Listener("append", value, token, w2))]
    IN  IF trackparent THEN sethasparent(w3, value, "True") ELSE w3

\* DynamicAttributeImpl.fire_remove_event
fire_remove_event(w, value, initiator, given) ==
    LET w1 == IF given THEN w ELSE _modified_event(w)
        token == IF initiator = "None" THEN "remove_token" ELSE initiator
        w2 == [w1 EXCEPT !.committed_state =
                             <<add_removed(w1.committed_state[1], value)>>]
        w3 == IF trackparent THEN sethasparent(w2, value, "False") ELSE w2
    IN  [w3 EXCEPT !.calls = Append(@, Listener("remove", value, token, w3))]

\* get that passes the caller's passive flag on
get_passive(w, passive) ==
    IF ~passive.sql_ok
    THEN LET h == _get_collection_history(w, passive)
         IN  Out(h.w, h.err, h.val.added_items)
    ELSE Out(w, "none", <<>>)

\* DynamicAttributeImpl.get: the pending additions, or a new AppenderQuery
\* (val <<>> then; the caller stores the query object)
get(w, passive) ==
    IF ~passive.sql_ok
    THEN LET h == _get_collection_history(w, PASSIVE_NO_INITIALIZE)
         IN  Out(h.w, h.err, h.val.added_items)
    ELSE Out(w, "none", <<>>)

\* DynamicAttributeImpl.get_collection
get_collection(w, passive) ==
    LET h == _get_collection_history(w, passive)
    IN  IF ~passive.sql_ok
        THEN Out(h.w, h.err, h.val.added_items)
        ELSE Out(h.w, h.err, added_plus_unchanged(h.val))

\* DynamicAttributeImpl.get_history
get_history(w, passive) ==
    LET c == _get_collection_history(w, passive)
    IN  Out(c.w, c.err, as_history(c.val))

\* attributes.instance_state(x): the InstanceState of the child x
instance_state(x) == [state_of |-> x]

\* DynamicAttributeImpl.get_all_pending
get_all_pending(w, passive) ==
    LET c == _get_collection_history(w, passive)
        l == all_items(c.val)
    IN  Out(c.w, c.err, [i \in DOMAIN l |-> <<instance_state(l[i]), l[i]>>])

\* append without the test of the initiator
append_reentrant(w, value, initiator) ==
    fire_append_event(w, value, initiator, FALSE)

\* DynamicAttributeImpl.append
append(w, value, initiator) ==
    IF initiator # "self" THEN fire_append_event(w, value, initiator, FALSE)
    ELSE w

\* DynamicAttributeImpl.remove
remove(w, value, initiator) ==
    IF initiator # "self" THEN fire_remove_event(w, value, initiator, FALSE)
    ELSE w

\* DynamicAttributeImpl.pop
pop(w, value, initiator) == remove(w, value, initiator)

\* delete that also discards the pending changes of the attribute
delete_discarding(w, value) ==
    Out([w EXCEPT !.committed_state = <<>>], "NotImplementedError", <<>>)

\* DynamicAttributeImpl.delete
delete(w, value) == Out(w, "NotImplementedError", <<>>)

\* DynamicAttributeImpl.set_committed_value
set_committed_value(w, value) == Out(w, "NotImplementedError", <<>>)

\* the first loop of set: an append event for each member of new_values
\* that is an addition
RECURSIVE set_appends(_, _, _)
set_appends(w, new_values, additions) ==
    IF new_values = <<>> THEN w
    ELSE LET w1 == IF Head(new_values) \in additions
                   THEN fire_append_event(w, Head(new_values), "None", TRUE)
                   ELSE w
         IN  set_appends(w1, Tail(new_values), additions)

\* the second loop of set: a remove event for each removal, in the order
\* the removals set iterates
RECURSIVE set_removes(_, _)
set_removes(w, removals) ==
    IF removals = <<>> THEN w
    ELSE set_removes(fire_remove_event(w, Head(removals), "None", TRUE),
                     Tail(removals))

\* DynamicAttributeImpl.set: the outcomes, one for each order the removals
\* set can iterate in.  initiator "own" is an event whose parent_token is
\* this impl's; pop_none is the call pop=True, value=None.
set(w, new_values, initiator, pop_none) ==
    IF initiator = "own" \/ pop_none THEN {Out(w, "none", <<>>)}
    ELSE LET loaded == IF w.has_identity THEN _iter(AppenderQuery, w)
                       ELSE Out(w, "none", <<>>)
         IN  IF loaded.err # "none" THEN {loaded}
             ELSE LET w1 == _modified_event(loaded.w)
                      added_items == w1.committed_state[1].added_items
                      old_collection ==
                          IF ~w1.has_identity THEN Range(added_items)
                          ELSE Range(loaded.val) \cup Range(added_items)
                      constants == old_collection \cap Range(new_values)
                      additions == Range(new_values) \ constants
                      removals == old_collection \ constants
                      w2 == set_appends(w1, new_values, additions)
                  IN  {Out(set_removes(w2, order), "none", <<>>) :
                          order \in Orders(removals)}

\* ------------------------------------------------------------ AppenderQuery
\* count that counts every pending item on the path without a session
count_all(q, w) ==
    LET s == session(q, w)
    IN  IF ~s.val
        THEN Out(s.w, "none", Len(all_items(stored_history(s.w))))
        ELSE LET s2 == session(q, s.w)
                 e == _execute(q, s2.w)
             IN  Out(e.w, "none", Len(e.val))

\* AppenderQuery.count
count(q, w) ==
    LET s == session(q, w)
    IN  IF ~s.val
        THEN Out(s.w, "none", Len(stored_history(s.w).added_items))
        ELSE LET s2 == session(q, s.w)
                 e == _execute(q, s2.w)
             IN  Out(e.w, "none", Len(e.val))

\* indexed that takes no negative index
indexed_forward(c, index) ==
    LET l == c.added_items
    IN  IF index + 1 \in DOMAIN l THEN [err |-> "none", val |-> <<l[index + 1]>>]
        ELSE [err |-> "IndexError", val |-> <<>>]

\* CollectionHistory.indexed: list(added_items)[index], Python indexing
indexed(c, index) ==
    LET l == c.added_items
        i == IF index < 0 THEN Len(l) + index + 1 ELSE index + 1
    IN  IF i \in DOMAIN l THEN [err |-> "none", val |-> <<l[i]>>]
        ELSE [err |-> "IndexError", val |-> <<>>]

\* orm_util._getitem(query, index) for an integer index: index -1 takes
\* the last of list(query); any other index takes query[index:index + 1],
\* which is __getitem__ again and then, for a negative index, that slice
\* of list(query), otherwise list(query.slice(index, index + 1))
_getitem(q, w, index) ==
    IF index = -1
    THEN LET it == _iter(q, w)
         IN  IF it.err # "none" THEN it
             ELSE IF it.val = <<>> THEN Out(it.w, "IndexError", <<>>)
             ELSE Out(it.w, "none", <<it.val[Len(it.val)]>>)
    ELSE IF index < 0
    THEN LET s == session(q, w)
             it == _iter(q, s.w)
             i == Len(it.val) + index + 1
         IN  IF it.err # "none" THEN it
             ELSE IF i \notin DOMAIN it.val THEN Out(it.w, "IndexError", <<>>)
             ELSE Out(it.w, "none", <<it.val[i]>>)
    ELSE LET s == session(q, w)
             sliced == [q EXCEPT !.statement.limit = 1,
                                 !.statement.offset =
                                     IF q.statement.offset < 0 THEN index
                                     ELSE q.statement.offset + index]
             it == _iter(sliced, s.w)
         IN  IF it.err # "none" THEN it
             ELSE IF it.val = <<>> THEN Out(it.w, "IndexError", <<>>)
             ELSE Out(it.w, "none", <<it.val[1]>>)

\* AppenderQuery.__getitem__
getitem(q, w, index) ==
    LET s == session(q, w)
    IN  IF ~s.val
        THEN LET r == indexed(stored_history(s.w), index)
             IN  Out(s.w, r.err, r.val)
        ELSE _getitem(q, s.w, index)

\* what Result.all / first / one / one_or_none / scalar make of the rows
fetch(how, rows) ==
    CASE how \in {"all", "iter"} -> [err |-> "none", val |-> rows]
      [] how \in {"first", "scalar"} ->
            [err |-> "none", val |-> SubSeq(rows, 1, IF rows = <<>> THEN 0 ELSE 1)]
      [] how = "one" ->
            IF Len(rows) = 1 THEN [err |-> "none", val |-> rows]
            ELSE IF rows = <<>> THEN [err |-> "NoResultFound", val |-> <<>>]
            ELSE [err |-> "MultipleResultsFound", val |-> <<>>]
      [] how = "one_or_none" ->
            IF Len(rows) <= 1 THEN [err |-> "none", val |-> rows]
            ELSE [err |-> "MultipleResultsFound", val |-> <<>>]

\* AppenderQuery.all / first / one / one_or_none / scalar / __iter__
read(q, w, how) ==
    LET it == _iter(q, w)
    IN  IF it.err # "none" THEN it
        ELSE LET f == fetch(how, it.val) IN Out(it.w, f.err, f.val)

\* the generative methods' bodies, on the copy _generative made
autoflush(self, setting) == [self EXCEPT !.autoflush = setting]

\* where that drops the criterion
where_dropped(self, criterion) == self

where(self, criterion) ==
    [self EXCEPT !.statement.criteria = Append(@, criterion)]

filter(self, criterion) == where(self, criterion)

filter_by(self, criterion) ==
    [self EXCEPT !.statement.criteria = Append(@, criterion)]

order_by(self, criterion) ==
    [self EXCEPT !.statement.order_by = Append(@, criterion)]

join(self, target) ==
    [self EXCEPT !.statement.joins = Append(@, <<"join", target>>)]

outerjoin(self, target) ==
    [self EXCEPT !.statement.joins = Append(@, <<"outerjoin", target>>)]

limit(self, n) == [self EXCEPT !.statement.limit = n]

offset(self, n) == [self EXCEPT !.statement.offset = n]

\* AppenderQuery.slice with both bounds given (sql_util._make_slice)
slice(self, start, stop) ==
    LET o == (IF self.statement.offset < 0 THEN 0 ELSE self.statement.offset)
             + start
    IN  [self EXCEPT !.statement.limit = stop - start,
                     !.statement.offset = IF o = 0 THEN -1 ELSE o]

\* sql.base._generative: the method runs on a copy of the receiver, which
\* is returned; the receiver is not touched
_generative(qs, copy) == Append(qs, copy)

\* --------------------------------------------------------------- DynaLoader
Directions == {"ONETOMANY", "MANYTOONE", "MANYTOMANY"}

\* init_class_attribute with the direction warning made an exception
init_class_attribute_strict(uselist, direction) ==
    IF ~uselist \/ direction \notin {"ONETOMANY", "MANYTOMANY"}
    THEN [err |-> "InvalidRequestError", warned |-> FALSE, registers |-> FALSE]
    ELSE [err |-> "none", warned |-> FALSE, registers |-> TRUE]

\* DynaLoader.init_class_attribute: the exception, whether a warning was
\* issued, whether _register_attribute was reached
init_class_attribute(uselist, direction) ==
    IF ~uselist
    THEN [err |-> "InvalidRequestError", warned |-> FALSE, registers |-> FALSE]
    ELSE IF direction \notin {"ONETOMANY", "MANYTOMANY"}
    THEN [err |-> "none", warned |-> TRUE, registers |-> TRUE]
    ELSE [err |-> "none", warned |-> FALSE, registers |-> TRUE]

\* ------------------------------------------------------------------ actions
\* no thread is inside the attribute
Idle ==
    [t \in Threads |->
        [pc |-> "idle", value |-> 0, collection_history |-> 0,
         overlapped |-> FALSE]]

NoObjects == [objects |-> <<>>, key |-> 0]

Init ==
    /\ registered = FALSE
    /\ has_identity = FALSE
    /\ attached = FALSE
    /\ sess_autoflush \in BOOLEAN
    /\ db = {}
    /\ committed_state = <<>>
    /\ queries = <<>>
    /\ ret = [op |-> "init", arg |-> <<>>, err |-> "none", val |-> <<>>]
    /\ calls = <<>>
    /\ threads = Idle
    /\ heap = NoObjects

\* the world after a call becomes the state
Commit(w) ==
    /\ has_identity' = w.has_identity
    /\ attached' = w.attached
    /\ sess_autoflush' = w.sess_autoflush
    /\ db' = w.db
    /\ committed_state' = w.committed_state
    /\ calls' = w.calls

\* a call made from the application's one thread returns
Return(op, arg, err, val) ==
    /\ ret' = [op |-> op, arg |-> arg, err |-> err, val |-> val]
    /\ UNCHANGED <<threads, heap>>

Initiators == {"None", "self", "other"}

SetInitiators == {"None", "own", "other"}

NewIterables == UNION {[1..n -> Items] : n \in 0..MaxNew}

Indexes == (0 - NumItems - 1)..NumItems

Hows == {"all", "first", "one", "one_or_none", "scalar", "iter"}

\* mapper configuration: the loader strategy sets up the class attribute
InitClassAttribute ==
    /\ ~registered
    /\ \E uselist \in BOOLEAN, direction \in Directions :
          LET r == init_class_attribute(uselist, direction)
          IN  /\ registered' = r.registers
              /\ Return("init_class_attribute",
                        [uselist |-> uselist, direction |-> direction],
                        r.err, r.warned)
    /\ calls' = <<>>
    /\ UNCHANGED <<has_identity, attached, sess_autoflush, db,
                   committed_state, queries>>

\* Session.add(instance)
SessionAdd ==
    /\ registered /\ ~attached
    /\ attached' = TRUE
    /\ Return("session_add", <<>>, "none", <<>>)
    /\ calls' = <<>>
    /\ UNCHANGED <<registered, has_identity, sess_autoflush, db,
                   committed_state, queries>>

\* Session.expunge(instance): a persistent instance becomes detached
SessionExpunge ==
    /\ registered /\ attached
    /\ attached' = FALSE
    /\ Return("session_expunge", <<>>, "none", <<>>)
    /\ calls' = <<>>
    /\ UNCHANGED <<registered, has_identity, sess_autoflush, db,
                   committed_state, queries>>

\* Session.flush() called by the application
SessionFlush ==
    /\ registered /\ attached
    /\ Commit(flush(World))
    /\ Return("session_flush", <<>>, "none", <<>>)
    /\ UNCHANGED <<registered, queries>>

Get ==
    /\ registered
    /\ \E passive \in PassiveFlags :
          LET r == get(World, passive)
          IN  /\ passive.sql_ok => Len(queries) < MaxQueries
              /\ Commit(r.w)
              /\ queries' = IF passive.sql_ok THEN Append(queries, AppenderQuery)
                            ELSE queries
              /\ Return("get", passive, r.err,
                        IF passive.sql_ok THEN <<Len(queries) + 1>> ELSE r.val)
    /\ UNCHANGED registered

GetCollection ==
    /\ registered
    /\ \E passive \in PassiveFlags :
          LET r == get_collection(World, passive)
          IN  Commit(r.w) /\ Return("get_collection", passive, r.err, r.val)
    /\ UNCHANGED <<registered, queries>>

GetHistory ==
    /\ registered
    /\ \E passive \in PassiveFlags :
          LET r == get_history(World, passive)
          IN  Commit(r.w) /\ Return("get_history", passive, r.err, r.val)
    /\ UNCHANGED <<registered, queries>>

GetAllPending ==
    /\ registered
    /\ \E passive \in PassiveFlags :
          LET r == get_all_pending(World, passive)
          IN  Commit(r.w) /\ Return("get_all_pending", passive, r.err, r.val)
    /\ UNCHANGED <<registered, queries>>

AttrAppend ==
    /\ registered
    /\ \E value \in Items, initiator \in Initiators :
          /\ Commit(append(World, value, initiator))
          /\ Return("append", [value |-> value, initiator |-> initiator],
                    "none", <<>>)
    /\ UNCHANGED <<registered, queries>>

AttrRemove ==
    /\ registered
    /\ \E value \in Items, initiator \in Initiators :
          /\ Commit(remove(World, value, initiator))
          /\ Return("remove", [value |-> value, initiator |-> initiator],
                    "none", <<>>)
    /\ UNCHANGED <<registered, queries>>

AttrSet ==
    /\ registered
    /\ \E value \in NewIterables, initiator \in SetInitiators,
          pop_none \in BOOLEAN :
          /\ pop_none => value = <<>> /\ initiator = "None"
          /\ \E r \in set(World, value, initiator, pop_none) :
                /\ Commit(r.w)
                /\ Return("set", [value |-> value, initiator |-> initiator,
                                  pop_none |-> pop_none], r.err, <<>>)
    /\ UNCHANGED <<registered, queries>>

\* DynamicAttributeImpl.delete / set_committed_value
AttrUnsupported ==
    /\ registered
    /\ \E value \in Items :
          \/ LET r == delete(World, value)
             IN  Commit(r.w) /\ Return("delete", <<value>>, r.err, r.val)
          \/ LET r == set_committed_value(World, value)
             IN  Commit(r.w)
                 /\ Return("set_committed_value", <<value>>, r.err, r.val)
    /\ UNCHANGED <<registered, queries>>

\* a result-returning read of a query: all, first, one, ..., iteration
QueryRead ==
    \E k \in DOMAIN queries, how \in Hows :
        LET r == read(queries[k], World, how)
        IN  /\ Commit(r.w)
            /\ UNCHANGED queries
            /\ Return(how, <<k>>, r.err, r.val)
            /\ UNCHANGED registered

QueryCount ==
    \E k \in DOMAIN queries :
        LET r == count(queries[k], World)
        IN  /\ Commit(r.w)
            /\ UNCHANGED queries
            /\ Return("count", <<k>>, r.err, r.val)
            /\ UNCHANGED registered

QueryGetItem ==
    \E k \in DOMAIN queries, index \in Indexes :
        LET r == getitem(queries[k], World, index)
        IN  /\ Commit(r.w)
            /\ UNCHANGED queries
            /\ Return("getitem", <<k, index>>, r.err, r.val)
            /\ UNCHANGED registered

\* AppenderQuery.append / remove: no initiator
QueryAppend ==
    \E k \in DOMAIN queries, item \in Items :
        /\ Commit(append(World, item, "None"))
        /\ Return("q_append", <<k, item>>, "none", <<>>)
        /\ UNCHANGED <<registered, queries>>

QueryRemove ==
    \E k \in DOMAIN queries, item \in Items :
        /\ Commit(remove(World, item, "None"))
        /\ Return("q_remove", <<k, item>>, "none", <<>>)
        /\ UNCHANGED <<registered, queries>>

ReadOps == Hows \cup {"count", "getitem"}

\* the receiver k of a generative call was read by the call before it
AfterRead(k) == ret.op \in ReadOps /\ ret.arg[1] = k

\* a generative method of a query: a copy with the change is returned
Generative(name, k, arg, copy) ==
    /\ Len(queries) < MaxQueries
    /\ queries' = _generative(queries, copy)
    /\ Return(name, <<k, arg, AfterRead(k)>>, "none", <<Len(queries) + 1>>)
    /\ calls' = <<>>
    /\ UNCHANGED <<registered, has_identity, attached, sess_autoflush, db,
                   committed_state>>

\* criterion c selects the children other than c
Criteria == {1, 2}

Limits == {0, 1}

QueryAutoflush ==
    \E k \in DOMAIN queries, setting \in BOOLEAN :
        Generative("autoflush", k, setting, autoflush(queries[k], setting))

QueryWhere ==
    \E k \in DOMAIN queries, c \in Criteria :
        Generative("where", k, c, where(queries[k], c))

QueryFilter ==
    \E k \in DOMAIN queries, c \in Criteria :
        Generative("filter", k, c, filter(queries[k], c))

QueryFilterBy ==
    \E k \in DOMAIN queries, c \in Criteria :
        Generative("filter_by", k, c, filter_by(queries[k], c))

QueryOrderBy ==
    \E k \in DOMAIN queries :
        Generative("order_by", k, 0, order_by(queries[k], "id"))

QueryJoin ==
    \E k \in DOMAIN queries :
        Generative("join", k, 0, join(queries[k], "t"))

QueryOuterJoin ==
    \E k \in DOMAIN queries :
        Generative("outerjoin", k, 0, outerjoin(queries[k], "t"))

QueryLimit ==
    \E k \in DOMAIN queries, n \in Limits :
        Generative("limit", k, n, limit(queries[k], n))

QueryOffset ==
    \E k \in DOMAIN queries, n \in Limits :
        Generative("offset", k, n, offset(queries[k], n))

QuerySlice ==
    \E k \in DOMAIN queries, start \in Limits :
        Generative("slice", k, start, slice(queries[k], start, start + 1))

\* the attribute-level API of one instance: mapper configuration, the
\* session, append / remove, the passive reads
Next ==
    \/ InitClassAttribute
    \/ SessionAdd
    \/ SessionExpunge
    \/ SessionFlush
    \/ GetCollection
    \/ GetHistory
    \/ GetAllPending
    \/ AttrAppend
    \/ AttrRemove
    \/ AttrUnsupported

Spec == Init /\ [][Next]_vars

\* reading the attribute: get hands out the pending additions or a query
NextGet ==
    \/ InitClassAttribute
    \/ SessionAdd
    \/ SessionExpunge
    \/ SessionFlush
    \/ AttrAppend
    \/ AttrRemove
    \/ Get

SpecGet == Init /\ [][NextGet]_vars

\* bulk replace among the other mutations
NextSet ==
    \/ InitClassAttribute
    \/ SessionAdd
    \/ SessionFlush
    \/ AttrAppend
    \/ AttrRemove
    \/ AttrSet
    \/ Get
    \/ QueryCount

SpecSet == Init /\ [][NextSet]_vars

\* the application holds q1 = instance.attr and q2 = q1.autoflush(False)
InitQuery ==
    /\ registered = TRUE
    /\ has_identity = FALSE
    /\ attached = FALSE
    /\ sess_autoflush \in BOOLEAN
    /\ db = {}
    /\ committed_state = <<>>
    /\ queries = <<AppenderQuery, autoflush(AppenderQuery, FALSE)>>
    /\ ret = [op |-> "init", arg |-> <<>>, err |-> "none", val |-> <<>>]
    /\ calls = <<>>
    /\ threads = Idle
    /\ heap = NoObjects

\* the collection API of the two queries
NextQuery ==
    \/ SessionAdd
    \/ SessionExpunge
    \/ SessionFlush
    \/ QueryRead
    \/ QueryCount
    \/ QueryGetItem
    \/ QueryAppend
    \/ QueryRemove

SpecQuery == InitQuery /\ [][NextQuery]_vars

\* the generative API of the queries of a parent
NextBuilder ==
    \/ InitClassAttribute
    \/ SessionAdd
    \/ Get
    \/ QueryRead
    \/ QueryAutoflush
    \/ QueryWhere
    \/ QueryFilter
    \/ QueryFilterBy
    \/ QueryOrderBy
    \/ QueryJoin
    \/ QueryOuterJoin
    \/ QueryLimit
    \/ QueryOffset
    \/ QuerySlice

SpecBuilder == Init /\ [][NextBuilder]_vars

\* reads and mutations of one attribute side by side: append / remove
\* through a query, the passive reads of the impl, the reads of the two
\* queries, and the session
NextReads ==
    \/ SessionAdd
    \/ SessionFlush
    \/ QueryAppend
    \/ QueryRemove
    \/ GetCollection
    \/ GetHistory
    \/ GetAllPending
    \/ QueryRead
    \/ QueryCount

SpecReads == InitQuery /\ [][NextReads]_vars

\* ------------------------------------------------------------ threads
\* Several threads call fire_append_event(state, dict_, value, None) on the
\* attribute of one transient instance, with no lock; a thread switch can
\* come between any two of the steps below.
InitThreads ==
    /\ registered = TRUE
    /\ has_identity = FALSE
    /\ attached = FALSE
    /\ sess_autoflush \in BOOLEAN
    /\ db = {}
    /\ committed_state = <<>>
    /\ queries = <<>>
    /\ ret = [op |-> "init", arg |-> <<>>, err |-> "none", val |-> <<>>]
    /\ calls = <<>>
    /\ threads = Idle
    /\ heap = NoObjects

InFlight(t) == threads[t].pc \notin {"idle", "done"}

\* _modified_event that tests nothing and always stores a new
\* CollectionHistory
key_absent_always(h) == TRUE

\* _modified_event: "self.key not in state.committed_state"
key_absent(h) == h.key = 0

\* state.committed_state as the map holds it: the object under self.key
Stored(h) == IF h.key = 0 THEN <<>> ELSE <<h.objects[h.key]>>

Step(t, pc) == threads' = [threads EXCEPT ![t].pc = pc]

ThreadFrame ==
    UNCHANGED <<registered, has_identity, attached, sess_autoflush, db,
                queries, ret>>

\* a thread enters fire_append_event with collection_history=None
ThreadCall(t) ==
    /\ threads[t].pc = "idle"
    /\ \E value \in Items :
          threads' =
              [u \in Threads |->
                  IF u = t
                  THEN [threads[t] EXCEPT
                            !.pc = "check", !.value = value,
                            !.overlapped = \E o \in Threads : InFlight(o)]
                  ELSE IF InFlight(u)
                  THEN [threads[u] EXCEPT !.overlapped = TRUE]
                  ELSE threads[u]]
    /\ UNCHANGED <<heap, committed_state, calls>>
    /\ ThreadFrame

\* _modified_event: the test of the key
ThreadCheck(t) ==
    /\ threads[t].pc = "check"
    /\ Step(t, IF key_absent(heap) THEN "create" ELSE "fetch")
    /\ UNCHANGED <<heap, committed_state, calls>>
    /\ ThreadFrame

\* _modified_event: state.committed_state[self.key] = CollectionHistory(...)
ThreadCreate(t) ==
    /\ threads[t].pc = "create"
    /\ heap' = [objects |-> Append(heap.objects, EmptyHistory),
                key |-> Len(heap.objects) + 1]
    /\ committed_state' = Stored(heap')
    /\ Step(t, "fetch")
    /\ UNCHANGED calls
    /\ ThreadFrame

\* _modified_event: return state.committed_state[self.key]
ThreadFetch(t) ==
    /\ threads[t].pc = "fetch"
    /\ threads' = [threads EXCEPT ![t].pc = "add",
                                  ![t].collection_history = heap.key]
    /\ UNCHANGED <<heap, committed_state, calls>>
    /\ ThreadFrame

\* fire_append_event: collection_history.add_added(value)
ThreadAdd(t) ==
    /\ threads[t].pc = "add"
    /\ heap' = [heap EXCEPT !.objects[threads[t].collection_history] =
                                add_added(@, threads[t].value)]
    /\ committed_state' = Stored(heap')
    /\ Step(t, "fire")
    /\ UNCHANGED calls
    /\ ThreadFrame

\* fire_append_event: the listeners, then sethasparent
ThreadFire(t) ==
    /\ threads[t].pc = "fire"
    /\ LET w1 == [World EXCEPT !.calls = calls]
           w2 == [w1 EXCEPT !.calls =
                      Append(@, Listener("append", threads[t].value,
                                         "append_token", w1))]
           w3 == IF trackparent
                 THEN sethasparent(w2, threads[t].value, "True") ELSE w2
       IN  calls' = w3.calls
    /\ Step(t, "done")
    /\ UNCHANGED <<heap, committed_state>>
    /\ ThreadFrame

NextThreads ==
    \E t \in Threads :
        \/ ThreadCall(t)
        \/ ThreadCheck(t)
        \/ ThreadCreate(t)
        \/ ThreadFetch(t)
        \/ ThreadAdd(t)
        \/ ThreadFire(t)

SpecThreads == InitThreads /\ [][NextThreads]_vars

\* ------------------------------------------------------------- properties
AddedItems == stored_history(World).added_items

DeletedItems == stored_history(World).deleted_items

AddedOf(cs) == IF cs = <<>> THEN {} ELSE Range(cs[1].added_items)

DeletedOf(cs) == IF cs = <<>> THEN {} ELSE Range(cs[1].deleted_items)

NoRepeat(s) == \A i, j \in DOMAIN s : i # j => s[i] # s[j]

\* C1: the History get_history returns for a parent with identity (a
\* reconciling CollectionHistory, its unchanged_items the rows of the
\* parent) has added = added_items - unchanged_items, deleted =
\* deleted_items /\ unchanged_items, unchanged = unchanged_items - deleted,
\* and the three lists are pairwise disjoint.
C1_AsHistoryReconciles ==
    (ret.op = "get_history" /\ ret.err = "none" /\ has_identity
        /\ ret.arg.init_ok) =>
        LET A == Range(AddedItems)
            D == Range(DeletedItems)
            U == db
            h == ret.val
        IN  /\ Range(h.added) = A \ U
            /\ Range(h.deleted) = D \cap U
            /\ Range(h.unchanged) = U \ Range(h.deleted)
            /\ Range(h.added) \cap Range(h.deleted) = {}
            /\ Range(h.added) \cap Range(h.unchanged) = {}
            /\ Range(h.deleted) \cap Range(h.unchanged) = {}
            /\ NoRepeat(h.added) /\ NoRepeat(h.deleted) /\ NoRepeat(h.unchanged)

\* C1 witness: a reconciled history where a pending addition is already a
\* row and a pending removal is not a row
C1_Witness ==
    /\ ret.op = "get_history" /\ ret.err = "none" /\ has_identity
    /\ ret.arg.init_ok
    /\ Range(AddedItems) \cap db # {}
    /\ Range(DeletedItems) \ db # {}
    /\ Range(DeletedItems) \cap db # {}

\* C2: on a parent without identity, append(x) and then remove(x) leaves x
\* out of added_items, and x is not put into deleted_items when it was not
\* there before.
C2_AppendThenRemove ==
    [][(/\ ~has_identity
        /\ ret.op = "append" /\ ret.arg.initiator # "self"
        /\ ret'.op = "remove" /\ ret'.arg.initiator # "self"
        /\ ret'.arg.value = ret.arg.value)
       => /\ ret.arg.value \notin AddedOf(committed_state')
          /\ DeletedOf(committed_state') = DeletedOf(committed_state)]_vars

\* C2 witness: remove(x) has run on a parent without identity and x is in
\* neither set, so x was a pending addition that the remove took back
C2_Witness ==
    /\ ~has_identity /\ ret.op = "remove" /\ ret.arg.initiator # "self"
    /\ ret.arg.value \notin Range(AddedItems)
    /\ ret.arg.value \notin Range(DeletedItems)
    /\ DeletedItems # <<>>

\* the listener calls of one kind for one member, among the calls of a call
Fired(cs, kind, m) ==
    Cardinality({i \in DOMAIN cs : cs[i].call = kind /\ cs[i].item = m})

\* the members the append listeners were called with, in call order
AppendOrder(cs) ==
    LET ev == SelectSeq(cs, LAMBDA c : c.call = "append")
    IN  [i \in DOMAIN ev |-> ev[i].item]

Executed(cs) == \E i \in DOMAIN cs : cs[i].call = "execute"

\* C3: set(new_iterable) on a persisted parent with nothing pending: a
\* member of both the rows and new_iterable gets no event, a member only of
\* new_iterable gets exactly one append event, the append events come in
\* new_iterable order, a member only of the rows gets exactly one remove
\* event.
C3_SetEvents ==
    [][(/\ has_identity /\ attached /\ committed_state = <<>>
        /\ ret'.op = "set" /\ ret'.err = "none"
        /\ ret'.arg.initiator # "own" /\ ~ret'.arg.pop_none)
       => LET new == Range(ret'.arg.value)
          IN  /\ \A m \in Items :
                    /\ (m \in db /\ m \in new) =>
                          Fired(calls', "append", m) = 0
                          /\ Fired(calls', "remove", m) = 0
                    /\ (m \notin db /\ m \in new) =>
                          Fired(calls', "append", m) = 1
                    /\ (m \in db /\ m \notin new) =>
                          Fired(calls', "remove", m) = 1
              /\ AppendOrder(calls') =
                    SelectSeq(OrderedIdentitySet(ret'.arg.value),
                              LAMBDA m : m \notin db)]_vars

\* the membership the history of the attribute stands for:
\* (unchanged - deleted) + added
Membership ==
    LET h == get_history(World, PASSIVE_OFF).val
    IN  (Range(h.unchanged) \ Range(h.deleted)) \cup Range(h.added)

\* C4: after set(new_iterable) has returned, the membership of the
\* attribute is the identity set of new_iterable.
C4_SetReplaces ==
    (ret.op = "set" /\ ret.err = "none" /\ ret.arg.initiator # "own"
        /\ ~ret.arg.pop_none)
    => Membership = Range(ret.arg.value)

\* C5: a result-returning read of a query of a detached parent with an empty
\* pending-change map raises DetachedInstanceError and executes no query.
C5_DetachedReadRaises ==
    (ret.op \in Hows /\ has_identity /\ ~attached /\ committed_state = <<>>)
    => ret.err = "DetachedInstanceError" /\ ~Executed(calls) /\ calls = <<>>

\* C5 witness: all() has raised on a detached parent that has rows
C5_Witness ==
    /\ ret.op = "all" /\ has_identity /\ ~attached /\ committed_state = <<>>
    /\ db # {} /\ ret.err = "DetachedInstanceError"

\* C6: every read of a query of a detached parent, count() and q[i] too,
\* raises DetachedInstanceError.
C6_EveryDetachedReadRaises ==
    (ret.op \in ReadOps /\ has_identity /\ ~attached)
    => ret.err = "DetachedInstanceError"

C8_CountPending ==
    (ret.op = "count" /\ ~has_identity /\ ~attached)
    => /\ ret.err = "none"
       /\ ret.val = Cardinality(Range(AddedItems))
       /\ calls = <<>>

\* C8 witness: count() returned NumItems with a removal pending as well
C8_Witness ==
    /\ ret.op = "count" /\ ~has_identity /\ ~attached
    /\ ret.val = NumItems /\ DeletedItems # <<>>

GenerativeOps ==
    {"autoflush", "where", "filter", "filter_by", "order_by", "join",
     "outerjoin", "limit", "offset", "slice"}

\* C9: a generative method returns a new query and leaves every existing
\* query, the receiver among them, as it was; where / filter / filter_by
\* give the new query the receiver's criteria plus the new one.
C9_GenerativeIndependence ==
    [][ret'.op \in GenerativeOps =>
        LET k == ret'.arg[1]
            n == ret'.val[1]
        IN  /\ n = Len(queries) + 1 /\ Len(queries') = n /\ n # k
            /\ \A i \in DOMAIN queries : queries'[i] = queries[i]
            /\ ret'.op \in {"where", "filter", "filter_by"} =>
                  /\ queries'[n].statement # queries'[k].statement
                  /\ queries'[n].statement.criteria =
                        Append(queries[k].statement.criteria, ret'.arg[2])
                  /\ queries'[n].autoflush = queries[k].autoflush
            /\ ret'.op = "autoflush" =>
                  /\ queries'[n].autoflush = ret'.arg[2]
                  /\ queries'[n].statement = queries[k].statement]_vars

\* C9 witness: where() was called on a query right after the query was
\* read, and the two queries differ in their criteria
C9_Witness ==
    /\ ret.op = "where" /\ ret.arg[3] = TRUE
    /\ queries[ret.val[1]].statement.criteria
          # queries[ret.arg[1]].statement.criteria

\* C10: get with a passive flag without SQL_OK returns the pending
\* added_items and executes nothing; with SQL_OK it returns a new
\* AppenderQuery, another object than every query handed out before.
C10_Get ==
    [][ret'.op = "get" =>
        /\ ret'.err = "none"
        /\ ~Executed(calls') /\ calls' = <<>>
        /\ UNCHANGED <<has_identity, attached, db, committed_state>>
        /\ ~ret'.arg.sql_ok =>
              /\ ret'.val = AddedItems
              /\ queries' = queries
        /\ ret'.arg.sql_ok =>
              /\ ret'.val = <<Len(queries) + 1>>
              /\ queries' = Append(queries, AppenderQuery)]_vars

\* C10 witness: two get calls handed out two queries, and a get without
\* SQL_OK then returned the pending additions of a persisted parent
C10_Witness ==
    /\ ret.op = "get" /\ ~ret.arg.sql_ok /\ ret.arg.init_ok
    /\ has_identity /\ attached
    /\ ret.val # <<>> /\ ret.val = AddedItems
    /\ Len(queries) = 2

\* C11 as claimed: get_collection with a passive flag without SQL_OK, on a
\* parent with identity, returns the pending added_items and executes no
\* query, whether or not the flag carries INIT_OK.
C11_GetCollectionNoSql ==
    (ret.op = "get_collection" /\ ~ret.arg.sql_ok /\ has_identity)
    => /\ ret.err = "none"
       /\ ret.val = AddedItems
       /\ ~Executed(calls)

\* C12: delete and set_committed_value raise NotImplementedError whatever
\* the argument and the state, change neither the pending-change map nor
\* the instance nor the rows, and call no listener.
C12_Unsupported ==
    [][ret'.op \in {"delete", "set_committed_value"} =>
        /\ ret'.err = "NotImplementedError"
        /\ calls' = <<>>
        /\ UNCHANGED <<committed_state, has_identity, attached, db,
                       sess_autoflush, queries, registered>>]_vars

\* C12 witness: delete has raised while an addition and a removal were
\* pending, and both still are
C12_Witness ==
    /\ ret.op = "delete" /\ ret.err = "NotImplementedError"
    /\ AddedItems # <<>> /\ DeletedItems # <<>>

\* the calls of listeners among the calls of a call
ListenerCalls(cs) == SelectSeq(cs, LAMBDA c : c.call \in {"append", "remove"})

\* the calls of sethasparent among the calls of a call
ParentCalls(cs) == SelectSeq(cs, LAMBDA c : c.call = "sethasparent")

\* C13: append and remove with the impl itself as initiator change neither
\* the pending-change map nor the parent flag and call no listener; with
\* another initiator, or none, the item is recorded and the listener of
\* the event is called exactly once.
C13_SelfInitiator ==
    [][ret'.op \in {"append", "remove"} =>
        LET v == ret'.arg.value
        IN  /\ ret'.arg.initiator = "self" =>
                  /\ calls' = <<>>
                  /\ UNCHANGED <<committed_state, has_identity, attached, db>>
            /\ ret'.arg.initiator # "self" =>
                  /\ Len(ListenerCalls(calls')) = 1
                  /\ Fired(calls', ret'.op, v) = 1
                  /\ Len(ParentCalls(calls')) = 1
                  /\ committed_state' # <<>>
                  /\ ret'.op = "append" => v \in AddedOf(committed_state')
                  /\ ret'.op = "remove" =>
                        /\ v \notin AddedOf(committed_state')
                        /\ v \in AddedOf(committed_state)
                              \/ v \in DeletedOf(committed_state')
                  /\ UNCHANGED <<has_identity, attached, db>>]_vars

\* C13 witness: remove(x) with the impl as initiator has returned and x is
\* still a pending addition
C13_Witness ==
    /\ ret.op = "remove" /\ ret.arg.initiator = "self"
    /\ ret.arg.value \in Range(AddedItems) /\ calls = <<>>

\* the positions of the calls of one kind among the calls of a call
CallsOf(cs, kind) == {i \in DOMAIN cs : cs[i].call = kind}

\* C14: a read of a query flushes exactly when the parent is in a session,
\* the query's autoflush toggle is on and the session's autoflush is on;
\* every flush comes before the execution of the statement, and the rows
\* read are the rows after the flush, so that the additions that were
\* pending are among them and the removed rows are not.
C14_FlushOnRead ==
    [][ret'.op \in ReadOps =>
        LET q == queries[ret'.arg[1]]
            flushing == attached /\ q.autoflush /\ sess_autoflush
            rows == (db \ DeletedOf(committed_state))
                        \cup (AddedOf(committed_state) \ db)
        IN  /\ (CallsOf(calls', "flush") # {}) <=> flushing
            /\ \A i \in CallsOf(calls', "flush") :
                  \A j \in CallsOf(calls', "execute") : i < j
            /\ ~q.autoflush \/ ~sess_autoflush =>
                  /\ CallsOf(calls', "flush") = {}
                  /\ committed_state' = committed_state /\ db' = db
            /\ flushing =>
                  /\ CallsOf(calls', "execute") # {}
                  /\ db' = rows /\ committed_state' = <<>> /\ has_identity'
                  /\ ret'.op \in {"all", "iter"} =>
                        ret'.val = Rows(q.statement, rows)
                  /\ ret'.op = "count" =>
                        ret'.val = Len(Rows(q.statement, rows))]_vars

\* C14 witness: all() on the autoflushing query of a parent in an
\* autoflushing session flushed, then executed, and returned a row of
\* every child
C14_Witness ==
    /\ ret.op = "all" /\ ret.arg[1] = 1 /\ sess_autoflush
    /\ CallsOf(calls, "flush") # {} /\ CallsOf(calls, "execute") # {}
    /\ Len(ret.val) = NumItems

\* C15 as claimed: a read of a query of a persisted parent in a session
\* calls execute exactly once and flush at most once, exactly once when
\* the query and the session autoflush, and the flush comes first.
C15_OneFlushOneExecute ==
    (ret.op \in ReadOps /\ has_identity /\ attached) =>
        /\ Cardinality(CallsOf(calls, "execute")) = 1
        /\ Cardinality(CallsOf(calls, "flush")) <= 1
        /\ (queries[ret.arg[1]].autoflush /\ sess_autoflush) =>
              Cardinality(CallsOf(calls, "flush")) = 1
        /\ \A i \in CallsOf(calls, "flush") :
              \A j \in CallsOf(calls, "execute") : i < j

\* C16 as claimed: the History get_history returns, for a transient or a
\* persisted parent after any appends and removes, has no item in both
\* added and deleted.
C16_AddedDeletedDisjoint ==
    (ret.op = "get_history" /\ ret.err = "none")
    => Range(ret.val.added) \cap Range(ret.val.deleted) = {}

\* C17: get_all_pending returns the pairs (instance_state(x), x) of exactly
\* the items x of added_items, unchanged_items and deleted_items, each
\* item once.
C17_GetAllPending ==
    (ret.op = "get_all_pending" /\ ret.err = "none") =>
        LET unchanged == IF has_identity /\ ret.arg.init_ok THEN db ELSE {}
        IN  /\ {p[2] : p \in Range(ret.val)} =
                  Range(AddedItems) \cup unchanged \cup Range(DeletedItems)
            /\ \A p \in Range(ret.val) : p[1] = instance_state(p[2])
            /\ NoRepeat(ret.val)
            /\ \A i, j \in DOMAIN ret.val :
                  i # j => ret.val[i][2] # ret.val[j][2]

\* C17 witness: get_all_pending on a persisted parent where one child is a
\* pending addition, a pending removal and a row at once
C17_Witness ==
    /\ ret.op = "get_all_pending" /\ ret.err = "none"
    /\ has_identity /\ ret.arg.init_ok
    /\ Range(AddedItems) \cap Range(DeletedItems) \cap db # {}
    /\ Len(ret.val) = NumItems

\* C18: on a parent that has no identity after the read (transient, or
\* pending in a session while the query or the session does not
\* autoflush), a read calls neither flush nor execute; all() and iteration
\* return added_items, which holds each child once in the order of first
\* insertion; q[i] is list(added_items)[i] as Python indexes a list, with
\* negative indices counted from the end and IndexError out of range.
C18_PendingReads ==
    [][/\ (ret'.op = "q_append" /\ ~has_identity) =>
            LET x == ret'.arg[2]
                old == stored_history(World).added_items
                new == committed_state'[1].added_items
            IN  /\ x \in Range(old) => new = old
                /\ x \notin Range(old) => new = Append(old, x)
                /\ NoRepeat(new)
       /\ (ret'.op \in ReadOps /\ ~has_identity') =>
            LET l == stored_history(World).added_items
                n == Len(l)
            IN  /\ calls' = <<>>
                /\ committed_state' = committed_state /\ db' = db
                /\ ret'.op \in {"all", "iter"} =>
                      ret'.err = "none" /\ ret'.val = l
                /\ ret'.op = "getitem" =>
                      LET i == ret'.arg[2]
                      IN  /\ (0 <= i /\ i < n) =>
                                ret'.err = "none" /\ ret'.val = <<l[i + 1]>>
                          /\ (i < 0 /\ 0 - n <= i) =>
                                ret'.err = "none" /\ ret'.val = <<l[n + i + 1]>>
                          /\ (i >= n \/ i < 0 - n) =>
                                ret'.err = "IndexError"]_vars

\* C18 witness: q[-2] on a pending parent in a session returned the child
\* that was appended first, which is not the child with the least key
C18_Witness ==
    /\ ret.op = "getitem" /\ ret.arg[2] = -2 /\ ret.err = "none"
    /\ ~has_identity /\ attached
    /\ Len(AddedItems) = 2 /\ AddedItems[1] > AddedItems[2]
    /\ ret.val = <<AddedItems[1]>> /\ calls = <<>>

\* C19: fire_append_event and fire_remove_event have the item recorded in
\* the CollectionHistory stored in the pending-change map (created when
\* absent) when the listener is called, call each listener once, and pass
\* it the caller's initiator, or the impl's append token / remove token
\* when the caller gave none.
C19_RecordThenFire ==
    [][(ret'.op \in {"append", "remove"} /\ ret'.arg.initiator # "self") =>
        LET v == ret'.arg.value
            ev == ListenerCalls(calls')
        IN  /\ Len(ev) = 1
            /\ ev[1].call = ret'.op /\ ev[1].item = v
            /\ ev[1].initiator =
                  IF ret'.arg.initiator # "None" THEN ret'.arg.initiator
                  ELSE IF ret'.op = "append" THEN "append_token"
                  ELSE "remove_token"
            /\ ev[1].saw # <<>> /\ ev[1].saw = committed_state'
            /\ ret'.op = "append" => v \in AddedOf(ev[1].saw)
            /\ ret'.op = "remove" =>
                  /\ v \notin AddedOf(ev[1].saw)
                  /\ v \in AddedOf(committed_state)
                        \/ v \in DeletedOf(ev[1].saw)]_vars

\* C19 witness: a first append with no initiator called the listener with
\* the append token, the new CollectionHistory holding the item
C19_Witness ==
    /\ ret.op = "append" /\ ret.arg.initiator = "None"
    /\ Len(calls) = 2 /\ calls[1].initiator = "append_token"
    /\ calls[1].saw = <<add_added(EmptyHistory, ret.arg.value)>>
    /\ committed_state = calls[1].saw

\* the thread has left fire_append_event and its item is not in the stored
\* CollectionHistory
Lost(t) ==
    /\ threads[t].pc = "done"
    /\ threads[t].value \notin AddedOf(committed_state)

\* C20: an item a thread appended is missing from the stored
\* CollectionHistory only if the thread ran fire_append_event while another
\* thread was inside it and the CollectionHistory it recorded into has been
\* replaced under the key; a thread that ran alone never loses its item.
C20_LostOnlyInRace ==
    \A t \in Threads :
        /\ Lost(t) =>
              /\ threads[t].overlapped
              /\ threads[t].collection_history # heap.key
              /\ threads[t].value \in
                    Range(heap.objects[threads[t].collection_history].added_items)
        /\ (threads[t].pc = "done" /\ ~threads[t].overlapped) =>
              threads[t].value \in AddedOf(committed_state)

\* C20 witness: every thread has returned, and the item of one of them is
\* not in the stored CollectionHistory
C20_Witness ==
    /\ \A t \in Threads : threads[t].pc = "done"
    /\ \E t \in Threads : Lost(t)

\* the History get_history(PASSIVE_OFF) returns in the current state
ReconciledHistory == get_history(World, PASSIVE_OFF).val

\* the History of the reconciling CollectionHistory over a stored
\* CollectionHistory cs and the rows the query loads
ReconciledOf(cs, rows) ==
    as_history([added_items |-> cs[1].added_items,
                deleted_items |-> cs[1].deleted_items,
                unchanged_items |-> OrderedIdentitySet(Rows(BaseStatement, rows)),
                reconcile_collection |-> TRUE])

DeletedSeq(cs) == IF cs = <<>> THEN <<>> ELSE cs[1].deleted_items

\* append(x) right after remove(x), both recorded, of a child x that has
\* a row under a persisted parent in a session
ReappendOfMember ==
    /\ has_identity /\ attached
    /\ ret.op = "remove" /\ ret.arg.initiator # "self"
    /\ ret.arg.value \in db
    /\ ret'.op = "append" /\ ret'.arg.initiator # "self"
    /\ ret'.arg.value = ret.arg.value

\* x is in added_items and in deleted_items of cs, and the reconciled
\* history lists it in deleted and not in added
InBothRawSets(x, cs, rows) ==
    /\ x \in AddedOf(cs) /\ x \in DeletedOf(cs)
    /\ x \in Range(ReconciledOf(cs, rows).deleted)
    /\ x \notin Range(ReconciledOf(cs, rows).added)

PassiveReads == {"get", "get_collection", "get_history", "get_all_pending"}

\* append / remove / set of the impl, append / remove of a query
Mutations == {"append", "remove", "set", "q_append", "q_remove"}

C23_ReconcileNeverFlushes ==
    [][(/\ ret'.op \in {"get_history", "get_all_pending", "get_collection"}
        /\ has_identity /\ attached /\ ret'.arg.init_ok) =>
        /\ ret'.err = "none"
        /\ CallsOf(calls', "flush") = {}
        /\ Cardinality(CallsOf(calls', "execute")) = 1
        /\ committed_state' = committed_state /\ db' = db
        /\ ret'.op = "get_history" =>
              /\ Range(ret'.val.added) = AddedOf(committed_state') \ db'
              /\ Range(ret'.val.deleted) = DeletedOf(committed_state') \cap db'
        /\ ret'.op = "get_all_pending" =>
              AddedOf(committed_state') \cup DeletedOf(committed_state')
                  \subseteq {p[2] : p \in Range(ret'.val)}
        /\ ret'.op = "get_collection" =>
              AddedOf(committed_state') \subseteq Range(ret'.val)]_vars

\* C23 witness: get_history on a persisted parent in an autoflushing
\* session has reported a pending addition and a pending removal, read
\* the rows, and both items are still pending
C23_Witness ==
    /\ ret.op = "get_history" /\ ret.arg.init_ok /\ ret.err = "none"
    /\ has_identity /\ attached /\ sess_autoflush
    /\ ret.val.added # <<>> /\ ret.val.deleted # <<>>
    /\ Range(ret.val.added) \subseteq Range(AddedItems)
    /\ Range(ret.val.deleted) \subseteq Range(DeletedItems)
    /\ CallsOf(calls, "execute") # {} /\ CallsOf(calls, "flush") = {}

====
